---- MODULE Spec2Model ----
(***************************************************************************)
(* Model of the playback card (src/MusicPlayer.jsx): the two state hooks   *)
(* isPlaying / currentProgress, the three event handlers, the rendered     *)
(* ARIA attributes, and React's update queue between a handler and the     *)
(* re-render that commits its updates.                                     *)
(***************************************************************************)
EXTENDS Integers, Sequences, FiniteSets, TLC

(* ------------------------------ bounds --------------------------------- *)

\* activations of the play control per behaviour
MaxToggles == 3
\* state updates that one React batch may hold before the re-render
MaxBatch == 2
\* largest pointer x coordinate of a progress-bar click
MaxClientX == 11
\* largest pointer x coordinate of the fine-grained progress clicks
MaxWideX == 110

(* ------------------------- program constants --------------------------- *)

\* default of the progress prop
DefaultProgress == 60
\* lower and upper clamp of handleProgressClick
ProgressMin == 0
ProgressMax == 100

(* ----------------------------- state ----------------------------------- *)
VARIABLES
  progress,        \* prop: the initial progress the caller supplied
  onPlayChange,    \* prop: "function" or "undefined"
  isPlaying,       \* hook state seen by the last render
  currentProgress, \* hook state seen by the last render
  playQ,           \* queued setIsPlaying values, not yet rendered
  progQ,           \* queued setCurrentProgress values, not yet rendered
  batching,        \* TRUE while the host holds the re-render back
  dom,             \* attributes written by the last render
  focus,           \* the focused element
  log,             \* payloads of the onPlayChange invocations, in order
  nToggles,        \* number of executions of handlePlayToggle
  lastEvent,       \* the event handled last
  progressProp,    \* the progress attribute as the caller wrote it
  shKind,          \* shell: the component mounted ("none" while unmounted)
  shProps,         \* shell: the props of the last render
  shOut,           \* shell: what the last render produced
  shDom,           \* shell: the inline transform / box-shadow on the element
  pointerInside,   \* shell: the pointer is over the element
  focusInside,     \* shell: the focus is inside the element
  icProps,         \* icon card: the props of the last render
  icOut,           \* icon card: the attributes the last render emitted
  icRenders,       \* icon card: number of renders after the first
  icCalls,         \* icon card: number of invocations of onClick
  icLast           \* icon card: the event handled last

\* the variables of the shell components
shellVars == <<shKind, shProps, shOut, shDom, pointerInside, focusInside>>

\* the variables of the icon card
iconVars == <<icProps, icOut, icRenders, icCalls, icLast>>

\* the variables of the playback card
playerVars == <<progress, onPlayChange, isPlaying, currentProgress, playQ,
                progQ, batching, dom, focus, log, nToggles, lastEvent,
                progressProp>>

\* what no handler of the playback card touches
frame == <<progressProp, shellVars, iconVars>>

vars == <<progress, onPlayChange, isPlaying, currentProgress, playQ, progQ,
          batching, dom, focus, log, nToggles, lastEvent, frame>>

(* --------------------------- JS numbers -------------------------------- *)
\* A JS number is an integer, NaN, +Infinity or -Infinity.
Num(n) == [t |-> "num", v |-> n]
NaN == [t |-> "nan", v |-> 0]
Undefined == [t |-> "undefined", v |-> 0]
PosInf == [t |-> "inf", v |-> 1]
NegInf == [t |-> "inf", v |-> -1]

\* a < b on JS numbers, neither of them NaN
Less(a, b) ==
  CASE a.t = "inf" /\ a.v < 0 -> ~(b.t = "inf" /\ b.v < 0)
    [] a.t = "inf" /\ a.v > 0 -> FALSE
    [] b.t = "inf" -> b.v > 0
    [] OTHER -> a.v < b.v

\* Math.min / Math.max: NaN if either argument is NaN
MathMin(a, b) ==
  IF a.t = "nan" \/ b.t = "nan" THEN NaN ELSE IF Less(b, a) THEN b ELSE a

MathMax(a, b) ==
  IF a.t = "nan" \/ b.t = "nan" THEN NaN ELSE IF Less(a, b) THEN b ELSE a

\* Math.round((dx / width) * 100): half-way cases round towards +Infinity,
\* x/0 is +-Infinity and 0/0 is NaN.  A DOMRect's width is never negative.
RoundPercent(dx, width) ==
  IF width = 0
  THEN IF dx = 0 THEN NaN ELSE IF dx > 0 THEN PosInf ELSE NegInf
  ELSE Num((200 * dx + width) \div (2 * width))

\* Faulty variant: the upper clamp is missing, Math.max(0, newProgress)
ClampProgress_NoUpper(newProgress) ==
  MathMax(Num(ProgressMin), newProgress)

\* Math.max(0, Math.min(100, newProgress))
ClampProgress(newProgress) ==
  MathMax(Num(ProgressMin), MathMin(Num(ProgressMax), newProgress))

(* --------------------------- rendering --------------------------------- *)
\* React writes a number-valued attribute as its string form
NumAttr(x) ==
  CASE x.t = "num" -> ToString(x.v)
    [] x.t = "nan" -> "NaN"
    [] OTHER -> IF x.v > 0 THEN "Infinity" ELSE "-Infinity"

BoolAttr(b) == IF b THEN "true" ELSE "false"

\* The texts of the source are Chinese; the model spells them in pinyin.
LabelPause == "zanting bofang"
LabelStart == "kaishi bofang"
TextPause == "zanting"
TextPlay == "bofang"
LivePlaying == "zhengzai bofang"
LivePaused == "yi zanting"

\* Faulty variant: the live region keeps its initial text
Render_StaleLive(playing, prog) ==
  [ ariaValueNow |-> NumAttr(prog),
    ariaValueMin |-> "0",
    ariaValueMax |-> "100",
    fillWidth    |-> NumAttr(prog) \o "%",
    ariaPressed  |-> BoolAttr(playing),
    ariaLabel    |-> IF playing THEN LabelPause ELSE LabelStart,
    buttonText   |-> IF playing THEN TextPause ELSE TextPlay,
    liveText     |-> LivePaused ]

\* Faulty variant: aria-valuenow renders the progress prop, not the hook state
Render_PropNow(playing, prog) ==
  [ ariaValueNow |-> NumAttr(progress),
    ariaValueMin |-> "0",
    ariaValueMax |-> "100",
    fillWidth    |-> NumAttr(prog) \o "%",
    ariaPressed  |-> BoolAttr(playing),
    ariaLabel    |-> IF playing THEN LabelPause ELSE LabelStart,
    buttonText   |-> IF playing THEN TextPause ELSE TextPlay,
    liveText     |-> IF playing THEN LivePlaying ELSE LivePaused ]

\* the attributes the card renders for hook state (playing, prog)
Render(playing, prog) ==
  [ ariaValueNow |-> NumAttr(prog),
    ariaValueMin |-> "0",
    ariaValueMax |-> "100",
    fillWidth    |-> NumAttr(prog) \o "%",
    ariaPressed  |-> BoolAttr(playing),
    ariaLabel    |-> IF playing THEN LabelPause ELSE LabelStart,
    buttonText   |-> IF playing THEN TextPause ELSE TextPlay,
    liveText     |-> IF playing THEN LivePlaying ELSE LivePaused ]

Elements == {"button", "progressbar"}
Keys == {"Space", "Enter", "NumpadEnter", "Tab"}
ActivationKeys == {"Space", "Enter"}

\* what a caller writes for the progress prop (PropTypes.number, optional)
ProgressProps == {Undefined, Num(30), Num(-5), Num(150)}

\* Faulty variant: the parameter has no default
ProgressParam_NoDefault(supplied) == supplied

\* the destructured parameter: progress = 60 when the prop is undefined
ProgressParam(supplied) ==
  IF supplied.t = "undefined" THEN Num(DefaultProgress) ELSE supplied

NoEvent ==
  [type |-> "none", target |-> "none", code |-> "", defaultPrevented |-> FALSE,
   newProgress |-> NaN, threw |-> FALSE]

Event(type, target, code) ==
  [type |-> type, target |-> target, code |-> code, defaultPrevented |-> FALSE,
   newProgress |-> NaN, threw |-> FALSE]

\* the state a render after the queued updates sees: the last queued value
Reduce(state, queue) == IF queue = <<>> THEN state ELSE queue[Len(queue)]

\* the status / progress the card has once the queued updates are rendered
Status == Reduce(isPlaying, playQ)
ProgressPercent == Reduce(currentProgress, progQ)

\* no icon card is mounted beside the playback card
IconUnmounted ==
  /\ icProps = <<>>
  /\ icOut = <<>>
  /\ icRenders = 0
  /\ icCalls = 0
  /\ icLast = <<>>

\* no shell is mounted beside the playback card
ShellUnmounted ==
  /\ shKind = "none"
  /\ shProps = <<>>
  /\ shOut = <<>>
  /\ shDom = <<>>
  /\ pointerInside = FALSE
  /\ focusInside = FALSE

Init ==
  /\ ShellUnmounted
  /\ IconUnmounted
  /\ progressProp \in ProgressProps
  /\ progress = ProgressParam(progressProp)
  /\ onPlayChange \in {"function", "undefined"}
  /\ isPlaying = FALSE
  /\ currentProgress = progress
  /\ playQ = <<>>
  /\ progQ = <<>>
  /\ batching = FALSE
  /\ dom = Render(FALSE, progress)
  /\ focus = "none"
  /\ log = <<>>
  /\ nToggles = 0
  /\ lastEvent = NoEvent

\* End of an event handler: outside a batch React re-renders with the queued
\* updates applied; inside a batch they stay queued.
Commit(pq, gq) ==
  IF batching
  THEN /\ playQ' = pq
       /\ progQ' = gq
       /\ UNCHANGED <<isPlaying, currentProgress, dom>>
  ELSE /\ playQ' = <<>>
       /\ progQ' = <<>>
       /\ isPlaying' = Reduce(isPlaying, pq)
       /\ currentProgress' = Reduce(currentProgress, gq)
       /\ dom' = Render(Reduce(isPlaying, pq), Reduce(currentProgress, gq))

QueueRoom == Len(playQ) + Len(progQ) < MaxBatch

(* ---------------------------- handlers --------------------------------- *)

\* Faulty variant: the callback receives the old status, onPlayChange?.(isPlaying)
PlayToggleEffect_OldPayload(throws) ==
  /\ Commit(Append(playQ, ~isPlaying), progQ)
  /\ log' = IF onPlayChange = "function" THEN Append(log, isPlaying) ELSE log
  /\ focus' = IF throws THEN focus ELSE "button"
  /\ nToggles' = nToggles + 1
  /\ UNCHANGED <<frame, progress, onPlayChange, batching>>

\* Faulty variant: the handler starts playback instead of toggling it,
\* setIsPlaying(true); onPlayChange?.(true)
PlayToggleEffect_SetTrue(throws) ==
  /\ Commit(Append(playQ, TRUE), progQ)
  /\ log' = IF onPlayChange = "function" THEN Append(log, TRUE) ELSE log
  /\ focus' = IF throws THEN focus ELSE "button"
  /\ nToggles' = nToggles + 1
  /\ UNCHANGED <<frame, progress, onPlayChange, batching>>

\* Faulty variant: the callback runs before the state update, so a throwing
\* callback leaves the handler with nothing queued
PlayToggleEffect_NotifyFirst(throws) ==
  /\ IF throws THEN Commit(playQ, progQ)
               ELSE Commit(Append(playQ, ~isPlaying), progQ)
  /\ log' = IF onPlayChange = "function" THEN Append(log, ~isPlaying) ELSE log
  /\ focus' = IF throws THEN focus ELSE "button"
  /\ nToggles' = nToggles + 1
  /\ UNCHANGED <<frame, progress, onPlayChange, batching>>

\* Body of handlePlayToggle: setIsPlaying(!isPlaying); onPlayChange?.(!isPlaying);
\* buttonRef.current?.focus().  isPlaying is the value of the last render.
\* A throwing callback leaves the handler before focus().
PlayToggleEffect(throws) ==
  /\ Commit(Append(playQ, ~isPlaying), progQ)
  /\ log' = IF onPlayChange = "function" THEN Append(log, ~isPlaying) ELSE log
  /\ focus' = IF throws THEN focus ELSE "button"
  /\ nToggles' = nToggles + 1
  /\ UNCHANGED <<frame, progress, onPlayChange, batching>>

\* handlePlayToggle, run for event ev
handlePlayToggle(ev) ==
  /\ nToggles < MaxToggles
  /\ QueueRoom
  /\ \E throws \in (IF onPlayChange = "function" THEN BOOLEAN ELSE {FALSE}) :
       /\ PlayToggleEffect(throws)
       /\ lastEvent' = [ev EXCEPT !.threw = throws]

\* Faulty variant: the key handler flips the state itself and forgets the
\* callback, setIsPlaying(!isPlaying) in place of handlePlayToggle()
handleKeyDown_NoNotify(target, code) ==
  IF code = "Space" \/ code = "Enter"
  THEN /\ nToggles < MaxToggles
       /\ QueueRoom
       /\ Commit(Append(playQ, ~isPlaying), progQ)
       /\ nToggles' = nToggles + 1
       /\ lastEvent' = [Event("keydown", target, code)
                          EXCEPT !.defaultPrevented = TRUE]
       /\ UNCHANGED <<frame, progress, onPlayChange, batching, focus, log>>
  ELSE /\ lastEvent' = Event("keydown", target, code)
       /\ UNCHANGED <<frame, progress, onPlayChange, isPlaying, currentProgress,
                      playQ, progQ, batching, dom, focus, log, nToggles>>

\* Faulty variant: the numeric keypad's Enter is taken for an activation too
handleKeyDown_NumpadEnter(target, code) ==
  IF code = "Space" \/ code = "Enter" \/ code = "NumpadEnter"
  THEN handlePlayToggle([Event("keydown", target, code)
                           EXCEPT !.defaultPrevented = TRUE])
  ELSE /\ lastEvent' = Event("keydown", target, code)
       /\ UNCHANGED <<frame, progress, onPlayChange, isPlaying, currentProgress,
                      playQ, progQ, batching, dom, focus, log, nToggles>>

\* handleKeyDown: Space and Enter prevent the default and toggle
handleKeyDown(target, code) ==
  IF code = "Space" \/ code = "Enter"
  THEN handlePlayToggle([Event("keydown", target, code)
                           EXCEPT !.defaultPrevented = TRUE])
  ELSE /\ lastEvent' = Event("keydown", target, code)
       /\ UNCHANGED <<frame, progress, onPlayChange, isPlaying, currentProgress,
                      playQ, progQ, batching, dom, focus, log, nToggles>>

\* Faulty variant: seeking also pauses, setIsPlaying(false); onPlayChange?.(false)
handleProgressClick_Pauses(clientX, left, width) ==
  LET newProgress == RoundPercent(clientX - left, width) IN
  /\ QueueRoom
  /\ Commit(Append(playQ, FALSE), Append(progQ, ClampProgress(newProgress)))
  /\ log' = IF onPlayChange = "function" THEN Append(log, FALSE) ELSE log
  /\ lastEvent' = [Event("click", "progressbar", "")
                     EXCEPT !.newProgress = newProgress]
  /\ UNCHANGED <<frame, progress, onPlayChange, batching, focus, nToggles>>

\* handleProgressClick: round the pointer position to a percentage, clamp it
handleProgressClick(clientX, left, width) ==
  LET newProgress == RoundPercent(clientX - left, width) IN
  /\ QueueRoom
  /\ Commit(playQ, Append(progQ, ClampProgress(newProgress)))
  /\ lastEvent' = [Event("click", "progressbar", "")
                     EXCEPT !.newProgress = newProgress]
  /\ UNCHANGED <<frame, progress, onPlayChange, batching, focus, log, nToggles>>

(* ----------------------------- events ---------------------------------- *)

\* pointer click on the play button (onClick={handlePlayToggle})
ClickPlay == handlePlayToggle(Event("click", "button", ""))

\* keydown on the focused element; both elements bind handleKeyDown
KeyDown ==
  \E target \in Elements, code \in Keys :
    /\ focus = target
    /\ handleKeyDown(target, code)

ClientXs == (0 - 2) .. MaxClientX
Lefts == {0, 1}
Widths == {0, 10}

\* pointer click on the progress bar (onClick={handleProgressClick})
ClickProgress ==
  \E clientX \in ClientXs, left \in Lefts, width \in Widths :
    handleProgressClick(clientX, left, width)

WideXs == (0 - 10) .. MaxWideX
WideWidths == {100, 8}

\* the same click on a bar wide enough to reach every percentage
ClickProgressWide ==
  \E clientX \in WideXs, width \in WideWidths :
    handleProgressClick(clientX, 0, width)

\* the user moves the focus (Tab, pointer); both elements are focusable
FocusChange ==
  /\ \E el \in Elements \cup {"none"} : el # focus /\ focus' = el
  /\ UNCHANGED <<frame, progress, onPlayChange, isPlaying, currentProgress, playQ,
                 progQ, batching, dom, log, nToggles, lastEvent>>

\* The host starts a batch: the updates of all events dispatched inside it are
\* rendered together when it ends.  React 18 batches the updates of every
\* event dispatched before it next re-renders (two dispatches from one task).
BeginBatch ==
  /\ ~batching
  /\ batching' = TRUE
  /\ UNCHANGED <<frame, progress, onPlayChange, isPlaying, currentProgress, playQ,
                 progQ, dom, focus, log, nToggles, lastEvent>>

\* the batch ends: React applies the queued updates and re-renders
EndBatch ==
  /\ batching
  /\ batching' = FALSE
  /\ playQ' = <<>>
  /\ progQ' = <<>>
  /\ isPlaying' = Reduce(isPlaying, playQ)
  /\ currentProgress' = Reduce(currentProgress, progQ)
  /\ dom' = Render(Reduce(isPlaying, playQ), Reduce(currentProgress, progQ))
  /\ UNCHANGED <<frame, progress, onPlayChange, focus, log, nToggles, lastEvent>>

(* -------------------------- specifications ----------------------------- *)

\* every event is dispatched on its own and rendered before the next one
Next == ClickPlay \/ KeyDown \/ ClickProgress \/ FocusChange

Spec == Init /\ [][Next]_vars

\* activations may also be dispatched inside a batch
NextBatch == ClickPlay \/ KeyDown \/ FocusChange \/ BeginBatch \/ EndBatch

SpecBatch == Init /\ [][NextBatch]_vars

\* progress clicks alone, over every percentage
NextProgress == ClickProgressWide

SpecProgress == Init /\ [][NextProgress]_vars

\* a useState that takes its argument again on every render
HookState_Reinit(current, initial) == initial

\* useState(initial) in a render after the first: the state the instance
\* holds, whatever the argument is now
HookState(current, initial) == current

\* the parent re-renders the mounted card with other props; nothing is queued
\* between two events
ParentRerender ==
  \E p \in ProgressProps, cb \in {"function", "undefined"} :
    /\ <<p, cb>> # <<progressProp, onPlayChange>>
    /\ ~batching
    /\ progressProp' = p
    /\ progress' = ProgressParam(p)
    /\ onPlayChange' = cb
    /\ isPlaying' = HookState(isPlaying, FALSE)
    /\ currentProgress' = HookState(currentProgress, ProgressParam(p))
    /\ dom' = Render(isPlaying', currentProgress')
    /\ lastEvent' = Event("rerender", "none", "")
    /\ UNCHANGED <<shellVars, iconVars, playQ, progQ, batching, focus, log,
                   nToggles>>

\* the card is unmounted and a new instance is mounted; the caller's record
\* of the callbacks stays with the caller
Remount ==
  \E p \in ProgressProps :
    /\ ~batching
    /\ progressProp' = p
    /\ progress' = ProgressParam(p)
    /\ isPlaying' = FALSE
    /\ currentProgress' = progress'
    /\ dom' = Render(FALSE, progress')
    /\ focus' = "none"
    /\ lastEvent' = Event("mount", "none", "")
    /\ UNCHANGED <<shellVars, iconVars, onPlayChange, playQ, progQ, batching,
                   log, nToggles>>

\* the life of instances of the card under a re-rendering parent
NextLife == ClickPlay \/ ClickProgress \/ ParentRerender \/ Remount

SpecLife == Init /\ [][NextLife]_vars

TypeOK ==
  /\ isPlaying \in BOOLEAN
  /\ batching \in BOOLEAN
  /\ nToggles \in 0 .. MaxToggles
  /\ focus \in Elements \cup {"none"}
  /\ Len(log) <= nToggles

(* ======================= the shell components ========================== *)
(* GlassCard (src/GlassCard.jsx), FrostedGlassPanel (src/unnamed/part_007) *)
(* and IconCard (src/unnamed/part_004).  Alphas are in hundredths:         *)
(* 'bg-white/45' and 'rgba(255, 255, 255, 0.45)' are both 45.              *)

\* names every JS object inherits from Object.prototype
InheritedNames == {"constructor", "toString", "valueOf", "hasOwnProperty"}

\* table[key] in JS: an own property, an inherited function, or undefined
Lookup(table, key) ==
  IF key \in DOMAIN table THEN [t |-> "object", v |-> table[key]]
  ELSE IF key \in InheritedNames THEN [t |-> "function", v |-> <<>>]
  ELSE [t |-> "undefined", v |-> <<>>]

\* a || b: objects and functions are truthy, undefined is not
Or(a, b) == IF a.t = "undefined" THEN b ELSE a

\* obj.field, for obj an object literal of numbers or a function
Prop(obj, field) ==
  IF obj.t = "object" /\ field \in DOMAIN obj.v THEN Num(obj.v[field])
  ELSE Undefined

\* obj.field, for obj an object literal of strings or a function
StrProp(obj, field) ==
  IF obj.t = "object" /\ field \in DOMAIN obj.v THEN obj.v[field]
  ELSE "undefined"

\* one layer of a box-shadow
Layer(inset, x, y, blur, color, a) ==
  [inset |-> inset, x |-> x, y |-> y, blur |-> blur, color |-> color, a |-> a]

Shadow(layers) == [t |-> "layers", v |-> layers]
NoShadow == [t |-> "undefined", v |-> <<>>]

(* ----------------------------- GlassCard ------------------------------- *)

\* opacityMap with the bottom and right edges brighter than the top and left
opacityMap_LitFromBelow ==
  [ light    |-> [bg |-> 45, border |-> 30, borderB |-> 60, borderR |-> 60,
                  shadow |-> 4,  hoverBg |-> 55, hoverShadow |-> 8],
    standard |-> [bg |-> 65, border |-> 40, borderB |-> 80, borderR |-> 80,
                  shadow |-> 7,  hoverBg |-> 75, hoverShadow |-> 12],
    dark     |-> [bg |-> 85, border |-> 70, borderB |-> 95, borderR |-> 95,
                  shadow |-> 10, hoverBg |-> 90, hoverShadow |-> 14],
    opaque   |-> [bg |-> 95, border |-> 80, borderB |-> 100, borderR |-> 100,
                  shadow |-> 12, hoverBg |-> 98, hoverShadow |-> 15] ]

\* opacityMap: bg, border, borderB, borderR, the alpha of the resting shadow
\* (0 8px 32px), hover.bg and the alpha of hover.shadow (0 12px 40px)
opacityMap ==
  [ light    |-> [bg |-> 45, border |-> 60,  borderB |-> 30, borderR |-> 30,
                  shadow |-> 4,  hoverBg |-> 55, hoverShadow |-> 8],
    standard |-> [bg |-> 65, border |-> 80,  borderB |-> 40, borderR |-> 40,
                  shadow |-> 7,  hoverBg |-> 75, hoverShadow |-> 12],
    dark     |-> [bg |-> 85, border |-> 95,  borderB |-> 70, borderR |-> 70,
                  shadow |-> 10, hoverBg |-> 90, hoverShadow |-> 14],
    opaque   |-> [bg |-> 95, border |-> 100, borderB |-> 80, borderR |-> 80,
                  shadow |-> 12, hoverBg |-> 98, hoverShadow |-> 15] ]

\* 'backdrop-blur-[16px]' of baseClasses
GlassCardBlur == 16

variantClasses ==
  [ default |-> <<"w-full", "sm:w-80">>,
    small   |-> <<"w-36", "h-36">>,
    large   |-> <<"w-full", "sm:w-96">> ]

\* shadow-[0_8px_32px_0_rgba(31,38,135,a)] / hover:shadow-[0_12px_40px_0_...]
CardShadow(y, blur, a) ==
  IF a.t = "num" THEN Shadow(<<Layer(FALSE, 0, y, blur, "indigo", a.v)>>)
  ELSE NoShadow

\* the hover part of a style: what the shell shows while it is hovered
NoHover == [present |-> FALSE, bg |-> Undefined, shadow |-> NoShadow,
            lift |-> FALSE]

\* the style of a component that did not render
NoStyle ==
  [ bg |-> Undefined, blur |-> Undefined,
    borderT |-> Undefined, borderL |-> Undefined,
    borderB |-> Undefined, borderR |-> Undefined,
    shadow |-> NoShadow, hover |-> NoHover,
    dims |-> <<>>, width |-> "undefined", padding |-> "undefined",
    radius |-> "undefined", cursor |-> "", transition |-> "" ]

\* a render that ended in a thrown error
Threw(err) == [status |-> "threw", error |-> err, style |-> NoStyle]

Rendered(style) == [status |-> "rendered", error |-> "", style |-> style]

\* the function component GlassCard
GlassCardRender(props) ==
  LET currentOpacity ==
        Or(Lookup(opacityMap, props.opacity), Lookup(opacityMap, "standard"))
      variantDims ==
        Or(Lookup(variantClasses, props.variant),
           Lookup(variantClasses, "default"))
  IN
  IF props.interactive /\ currentOpacity.t # "object"
  THEN \* currentOpacity.hover is undefined: currentOpacity.hover.shadow
       Threw("TypeError: undefined has no property shadow")
  ELSE IF variantDims.t # "object"
  THEN \* ...(variantClasses[variant]) spreads a function
       Threw("TypeError: not iterable")
  ELSE
    Rendered(
      [ bg |-> Prop(currentOpacity, "bg"),
        blur |-> Num(GlassCardBlur),
        borderT |-> Prop(currentOpacity, "border"),
        borderL |-> Prop(currentOpacity, "border"),
        borderB |-> Prop(currentOpacity, "borderB"),
        borderR |-> Prop(currentOpacity, "borderR"),
        shadow |-> CardShadow(8, 32, Prop(currentOpacity, "shadow")),
        hover |-> IF props.interactive
                  THEN [present |-> TRUE,
                        bg |-> Prop(currentOpacity, "hoverBg"),
                        shadow |->
                          CardShadow(12, 40, Prop(currentOpacity, "hoverShadow")),
                        lift |-> TRUE]
                  ELSE NoHover,
        dims |-> variantDims.v,
        width |-> "", padding |-> "p-6", radius |-> "rounded-3xl",
        cursor |-> IF props.interactive THEN "pointer" ELSE "",
        transition |-> "all 300ms ease-in-out" ])

(* -------------------------- FrostedGlassPanel -------------------------- *)

\* a shadow of the outer layer alone
FiveLayers_OuterOnly(y, blur, a, wTop, bBottom, o, ib, wCorner, bCorner) ==
  << Layer(FALSE, 0, y, blur, "black", a) >>

\* a shadow string of opacityConfig: one outer black layer '0 y blur', then
\* 'inset 0 1px 0' white, 'inset 0 -1px 0' black, 'inset -o -o ib' white and
\* 'inset o o ib' black
FiveLayers(y, blur, a, wTop, bBottom, o, ib, wCorner, bCorner) ==
  << Layer(FALSE, 0, y, blur, "black", a),
     Layer(TRUE, 0, 1, 0, "white", wTop),
     Layer(TRUE, 0, 0 - 1, 0, "black", bBottom),
     Layer(TRUE, 0 - o, 0 - o, ib, "white", wCorner),
     Layer(TRUE, o, o, ib, "black", bCorner) >>

contentLight ==
  [ bg |-> 8, border |-> 15, blur |-> 4,
    shadow |-> FiveLayers(8, 20, 15, 40, 8, 1, 4, 10, 4) ]

contentStandard ==
  [ bg |-> 12, border |-> 20, blur |-> 6,
    shadow |-> FiveLayers(10, 30, 20, 50, 10, 1, 5, 12, 5) ]

\* contentDark with a background thinner than that of contentStandard
contentDark_Thin ==
  [ bg |-> 10, border |-> 25, blur |-> 8,
    shadow |-> FiveLayers(12, 35, 25, 60, 12, 1, 6, 15, 6) ]

contentDark ==
  [ bg |-> 18, border |-> 25, blur |-> 8,
    shadow |-> FiveLayers(12, 35, 25, 60, 12, 1, 6, 15, 6) ]

navLight ==
  [ bg |-> 15, border |-> 25, blur |-> 10,
    shadow |-> FiveLayers(15, 40, 30, 50, 15, 2, 8, 15, 8) ]

\* navStandard with the background of navLight
navStandard_Flat ==
  [ bg |-> 15, border |-> 30, blur |-> 12,
    shadow |-> FiveLayers(20, 60, 40, 60, 20, 2, 8, 20, 10) ]

navStandard ==
  [ bg |-> 25, border |-> 30, blur |-> 12,
    shadow |-> FiveLayers(20, 60, 40, 60, 20, 2, 8, 20, 10) ]

navDark ==
  [ bg |-> 35, border |-> 40, blur |-> 14,
    shadow |-> FiveLayers(25, 70, 45, 70, 25, 2, 10, 25, 12) ]

light ==
  [ bg |-> 15, border |-> 25, blur |-> 10,
    shadow |-> FiveLayers(15, 40, 30, 50, 15, 2, 8, 15, 8) ]

standard ==
  [ bg |-> 25, border |-> 30, blur |-> 12,
    shadow |-> FiveLayers(20, 60, 40, 60, 20, 2, 8, 20, 10) ]

dark ==
  [ bg |-> 35, border |-> 40, blur |-> 14,
    shadow |-> FiveLayers(25, 70, 45, 70, 25, 2, 10, 25, 12) ]

opaque ==
  [ bg |-> 45, border |-> 50, blur |-> 16,
    shadow |-> FiveLayers(30, 80, 50, 80, 30, 2, 12, 30, 15) ]

opacityConfig ==
  [ contentLight    |-> contentLight,
    contentStandard |-> contentStandard,
    contentDark     |-> contentDark,
    navLight        |-> navLight,
    navStandard     |-> navStandard,
    navDark         |-> navDark,
    light           |-> light,
    standard        |-> standard,
    dark            |-> dark,
    opaque          |-> opaque ]

sizeConfig ==
  [ small     |-> [width |-> "280px", padding |-> "20px", borderRadius |-> "20px"],
    medium    |-> [width |-> "400px", padding |-> "30px", borderRadius |-> "25px"],
    large     |-> [width |-> "600px", padding |-> "40px", borderRadius |-> "30px"],
    fullWidth |-> [width |-> "100%",  padding |-> "40px", borderRadius |-> "25px"] ]

\* opacity.charAt(0).toUpperCase() + opacity.slice(1)
Capitalize(s) ==
  CASE s = "light"       -> "Light"
    [] s = "standard"    -> "Standard"
    [] s = "dark"        -> "Dark"
    [] s = "opaque"      -> "Opaque"
    [] s = "bogus"       -> "Bogus"
    [] s = "constructor" -> "Constructor"
    [] s = "navDark"     -> "NavDark"
    [] OTHER             -> s

\* config.shadow
ShadowProp(obj) ==
  IF obj.t = "object" /\ "shadow" \in DOMAIN obj.v THEN Shadow(obj.v.shadow)
  ELSE NoShadow

\* the alpha handleHover writes into every 'rgba(0, 0, 0, a)' of the shadow
HoverAlpha == 50

\* config.shadow.replace(/rgba\(0, 0, 0, [0-9.]+\)/g, 'rgba(0, 0, 0, 0.5)');
\* of an undefined shadow it throws, which NoShadow stands for
HoverShadow(shadow) ==
  IF shadow.t = "layers"
  THEN Shadow([i \in DOMAIN shadow.v |->
                 IF shadow.v[i].color = "black"
                 THEN [shadow.v[i] EXCEPT !.a = HoverAlpha]
                 ELSE shadow.v[i]])
  ELSE NoShadow

\* a configKey that also looks at the size
configKey_BySize(props) ==
  IF props.size = "small" THEN "contentLight"
  ELSE (IF props.variant = "nav" THEN "nav" ELSE "content")
         \o Capitalize(props.opacity)

configKey(props) ==
  (IF props.variant = "nav" THEN "nav" ELSE "content") \o Capitalize(props.opacity)

\* the function component FrostedGlassPanel; the hover part is what its
\* handlers handleHover / handleHoverEnd close over
FrostedGlassPanelRender(props) ==
  LET config ==
        Or(Or(Lookup(opacityConfig, configKey(props)),
              Lookup(opacityConfig, props.opacity)),
           Lookup(opacityConfig, "standard"))
      sizeStyle == Or(Lookup(sizeConfig, props.size), Lookup(sizeConfig, "medium"))
  IN
  Rendered(
    [ bg |-> Prop(config, "bg"),
      blur |-> Prop(config, "blur"),
      borderT |-> Prop(config, "border"),
      borderL |-> Prop(config, "border"),
      borderB |-> Prop(config, "border"),
      borderR |-> Prop(config, "border"),
      shadow |-> ShadowProp(config),
      hover |-> IF props.interactive
                THEN [present |-> TRUE,
                      bg |-> Prop(config, "bg"),
                      shadow |-> HoverShadow(ShadowProp(config)),
                      lift |-> TRUE]
                ELSE NoHover,
      dims |-> <<>>,
      width |-> StrProp(sizeStyle, "width"),
      padding |-> StrProp(sizeStyle, "padding"),
      radius |-> StrProp(sizeStyle, "borderRadius"),
      cursor |-> IF props.interactive THEN "pointer" ELSE "",
      transition |-> IF props.interactive THEN "all 0.3s ease" ELSE "" ])

(* ------------------------------ IconCard ------------------------------- *)

\* IconCard renders <GlassCard variant="small" ...> with its own children
IconCardRender(props) ==
  GlassCardRender([props EXCEPT !.variant = "small", !.children = TRUE])

(* ------------------------ mounting and events -------------------------- *)

ShellKinds == {"GlassCard", "FrostedGlassPanel", "IconCard"}

RecognisedOpacities == {"light", "standard", "dark", "opaque"}

\* oneOf([...]) of the propTypes of each component
RecognisedVariants(kind) ==
  IF kind = "FrostedGlassPanel" THEN {"content", "nav"}
  ELSE {"default", "small", "large"}

RecognisedSizes == {"small", "medium", "large", "fullWidth"}

\* values a caller can pass: the recognised ones, unknown names, the empty
\* string, a name inherited from Object.prototype and a key of opacityConfig
\* that is not a tier
Opacities == RecognisedOpacities \cup {"bogus", "", "constructor", "navDark"}
Variants(kind) == RecognisedVariants(kind) \cup {"bogus", "constructor"}
Sizes == RecognisedSizes \cup {"bogus", "constructor"}

\* the props of one element; IconCard sets variant itself, and only
\* FrostedGlassPanel reads size
Props(kind) ==
  [ opacity : Opacities,
    variant : IF kind = "IconCard" THEN {"small"} ELSE Variants(kind),
    size : IF kind = "FrostedGlassPanel" THEN Sizes ELSE {"medium"},
    interactive : BOOLEAN,
    children : IF kind = "IconCard" THEN {TRUE} ELSE BOOLEAN,
    icon : IF kind = "IconCard" THEN BOOLEAN ELSE {TRUE},
    label : IF kind = "IconCard" THEN BOOLEAN ELSE {TRUE} ]

\* isRequired props that were not supplied
MissingRequired(kind, props) ==
  IF kind = "IconCard"
  THEN {p \in {"icon", "label"} : ~props[p]}
  ELSE {p \in {"children"} : ~props[p]}

\* what the propTypes check reports (console warnings)
Warnings(kind, props) ==
  MissingRequired(kind, props)
    \cup {p \in {"opacity"} : props.opacity \notin RecognisedOpacities}
    \cup {p \in {"variant"} : props.variant \notin RecognisedVariants(kind)}
    \cup {p \in {"size"} : kind = "FrostedGlassPanel"
                           /\ props.size \notin RecognisedSizes}

\* a dispatch in which the variant 'small' (and 'nav') also forces the tier
Component_VariantTint(kind, props) ==
  CASE kind = "GlassCard" ->
         GlassCardRender(IF props.variant = "small"
                         THEN [props EXCEPT !.opacity = "light"] ELSE props)
    [] kind = "FrostedGlassPanel" ->
         FrostedGlassPanelRender(IF props.variant = "nav"
                                 THEN [props EXCEPT !.size = "small"] ELSE props)
    [] kind = "IconCard" -> IconCardRender(props)

Component(kind, props) ==
  CASE kind = "GlassCard"         -> GlassCardRender(props)
    [] kind = "FrostedGlassPanel" -> FrostedGlassPanelRender(props)
    [] kind = "IconCard"          -> IconCardRender(props)

\* the content an element shows once rendered
Content(kind, props) ==
  IF kind = "IconCard" THEN {p \in {"icon", "label"} : props[p]}
  ELSE {p \in {"children"} : props[p]}

Outcome(kind, props, r) ==
  [ status |-> r.status, error |-> r.error, style |-> r.style,
    warnings |-> Warnings(kind, props),
    content |-> IF r.status = "rendered" THEN Content(kind, props) ELSE {} ]

\* a variant of RenderElement in which a missing required prop is fatal
RenderElement_FailFast(kind, props) ==
  Outcome(kind, props,
          IF MissingRequired(kind, props) # {}
          THEN Threw("Error: required prop missing")
          ELSE Component(kind, props))

\* React renders an element: propTypes are checked (warnings only), then the
\* component function runs
RenderElement(kind, props) == Outcome(kind, props, Component(kind, props))

Lifted == "translateY(-5px)"

\* inline style of the root node after the first render: only
\* FrostedGlassPanel has a style prop
MountDom(kind, out) ==
  [ transform |-> "",
    boxShadow |-> IF kind = "FrostedGlassPanel" /\ out.status = "rendered"
                  THEN out.style.shadow ELSE NoShadow ]

\* what the user sees: FrostedGlassPanel shows its inline style, GlassCard
\* (and IconCard) the hover: classes while the pointer is inside
Displayed ==
  IF shKind = "FrostedGlassPanel"
  THEN [lifted |-> shDom.transform = Lifted, shadow |-> shDom.boxShadow]
  ELSE IF pointerInside /\ shOut.style.hover.present
       THEN [lifted |-> shOut.style.hover.lift,
             shadow |-> shOut.style.hover.shadow]
       ELSE [lifted |-> FALSE, shadow |-> shOut.style.shadow]

\* the resting presentation of the current configuration
Resting == [lifted |-> FALSE, shadow |-> shOut.style.shadow]

\* the playback card of these states is idle and takes no part
PlayerIdle ==
  /\ progressProp = Undefined
  /\ progress = ProgressParam(progressProp)
  /\ onPlayChange = "undefined"
  /\ isPlaying = FALSE
  /\ currentProgress = progress
  /\ playQ = <<>>
  /\ progQ = <<>>
  /\ batching = FALSE
  /\ dom = Render(FALSE, progress)
  /\ focus = "none"
  /\ log = <<>>
  /\ nToggles = 0
  /\ lastEvent = NoEvent

InitShell ==
  /\ PlayerIdle
  /\ IconUnmounted
  /\ shKind \in ShellKinds
  /\ shProps \in Props(shKind)
  /\ shOut = RenderElement(shKind, shProps)
  /\ shDom = MountDom(shKind, shOut)
  /\ pointerInside = FALSE
  /\ focusInside = FALSE

\* the parent re-renders the element with new props.  React writes a style
\* property to the node only when its value in the style prop changed; a
\* render that throws unmounts the tree
Rerender(newProps) ==
  /\ shOut.status = "rendered"
  /\ newProps # shProps
  /\ shProps' = newProps
  /\ shOut' = RenderElement(shKind, newProps)
  /\ IF shOut'.status = "threw"
     THEN /\ shDom' = MountDom(shKind, shOut')
          /\ pointerInside' = FALSE
          /\ focusInside' = FALSE
     ELSE /\ shDom' = IF shKind = "FrostedGlassPanel"
                         /\ shOut'.style.shadow # shOut.style.shadow
                      THEN [shDom EXCEPT !.boxShadow = shOut'.style.shadow]
                      ELSE shDom
          /\ UNCHANGED <<pointerInside, focusInside>>
  /\ UNCHANGED <<shKind, playerVars, iconVars>>

SetOpacity == \E o \in Opacities : Rerender([shProps EXCEPT !.opacity = o])

SetVariant ==
  /\ shKind # "IconCard"
  /\ \E v \in Variants(shKind) : Rerender([shProps EXCEPT !.variant = v])

SetSize ==
  /\ shKind = "FrostedGlassPanel"
  /\ \E s \in Sizes : Rerender([shProps EXCEPT !.size = s])

SetInteractive == Rerender([shProps EXCEPT !.interactive = ~@])

\* onMouseEnter: handleHover of FrostedGlassPanel; the other shells have no
\* handler.  config.shadow.replace throws on an undefined shadow, after the
\* transform was written
MouseEnter ==
  /\ shOut.status = "rendered"
  /\ ~pointerInside
  /\ pointerInside' = TRUE
  /\ shDom' = IF shKind = "FrostedGlassPanel" /\ shProps.interactive
              THEN [ transform |-> Lifted,
                     boxShadow |-> IF shOut.style.shadow.t = "layers"
                                   THEN HoverShadow(shOut.style.shadow)
                                   ELSE shDom.boxShadow ]
              ELSE shDom
  /\ UNCHANGED <<shKind, shProps, shOut, focusInside, playerVars, iconVars>>

\* onMouseLeave: handleHoverEnd of FrostedGlassPanel; an undefined shadow is
\* not a valid value of style.boxShadow and is ignored by the node
MouseLeave ==
  /\ shOut.status = "rendered"
  /\ pointerInside
  /\ pointerInside' = FALSE
  /\ shDom' = IF shKind = "FrostedGlassPanel" /\ shProps.interactive
              THEN [ transform |-> "none",
                     boxShadow |-> IF shOut.style.shadow.t = "layers"
                                   THEN shOut.style.shadow
                                   ELSE shDom.boxShadow ]
              ELSE shDom
  /\ UNCHANGED <<shKind, shProps, shOut, focusInside, playerVars, iconVars>>

\* focus moves into or out of the shell: no shell has a focus handler or a
\* focus: class
FocusIn ==
  /\ shOut.status = "rendered"
  /\ ~focusInside
  /\ focusInside' = TRUE
  /\ UNCHANGED <<shKind, shProps, shOut, shDom, pointerInside, playerVars, iconVars>>

FocusOut ==
  /\ shOut.status = "rendered"
  /\ focusInside
  /\ focusInside' = FALSE
  /\ UNCHANGED <<shKind, shProps, shOut, shDom, pointerInside, playerVars, iconVars>>

NextShell ==
  \/ SetOpacity
  \/ SetVariant
  \/ SetSize
  \/ SetInteractive
  \/ MouseEnter
  \/ MouseLeave
  \/ FocusIn
  \/ FocusOut

SpecShell == InitShell /\ [][NextShell]_vars


(* ================== IconCard: attributes and activation ================ *)

\* renders of one icon card after the first, and invocations of its callback
MaxRenders == 2
MaxCalls == 2
\* distinct values of the random suffix of iconBoxId
MaxIds == 2

\* the suffix Math.random().toString(36).slice(2, 9) of iconBoxId
Ids == 1..MaxIds

\* what a caller writes for description: nothing, '' or a text
Descriptions == {"undefined", "", "text"}

\* description ? ... : ... and description && ...
Truthy(description) == description \notin {"undefined", ""}

IconProps == [label : {"Files"}, description : Descriptions, onClick : BOOLEAN]

\* the doc's sketch of the icon card: aria-describedby always set
IconCardElement_AlwaysDescribed(props, id) ==
  [ role |-> "button",
    ariaLabel |-> props.label,
    ariaDescribedBy |-> Num(id),
    tabIndex |-> IF props.onClick THEN 0 ELSE 0 - 1,
    descriptionId |-> IF Truthy(props.description) THEN Num(id) ELSE Undefined ]

\* the attributes one render of IconCard emits; id is the iconBoxId it drew,
\* descriptionId the id of the <p class="sr-only"> (Undefined: no such element)
IconCardElement(props, id) ==
  [ role |-> "button",
    ariaLabel |-> props.label,
    ariaDescribedBy |-> IF Truthy(props.description) THEN Num(id) ELSE Undefined,
    tabIndex |-> IF props.onClick THEN 0 ELSE 0 - 1,
    descriptionId |-> IF Truthy(props.description) THEN Num(id) ELSE Undefined ]

NoIconEvent == [type |-> "none", code |-> "", defaultPrevented |-> FALSE]

\* an onKeyDown that activates on every key
IconKeyActivates_AnyKey(onClick, code) == onClick

\* onKeyDown of IconCard: onClick && (e.code === 'Space' || e.code === 'Enter')
IconKeyActivates(onClick, code) == onClick /\ code \in {"Space", "Enter"}

InitIcon ==
  /\ ShellUnmounted
  /\ PlayerIdle
  /\ icProps \in IconProps
  /\ \E id \in Ids : icOut = IconCardElement(icProps, id)
  /\ icRenders = 0
  /\ icCalls = 0
  /\ icLast = NoIconEvent

\* one more render of the function component, which draws a new iconBoxId
IconRender(props) ==
  /\ icRenders < MaxRenders
  /\ icRenders' = icRenders + 1
  /\ icProps' = props
  /\ \E id \in Ids : icOut' = IconCardElement(props, id)
  /\ UNCHANGED <<icCalls, icLast, playerVars, shellVars>>

\* the parent re-renders the card with the same props
IconRerender == IconRender(icProps)

\* the parent re-renders the card with other props
IconSetProps == \E p \in IconProps : p # icProps /\ IconRender(p)

\* a keydown on the card
IconKeyDown ==
  \E code \in Keys :
    LET activates == IconKeyActivates(icProps.onClick, code) IN
    /\ activates => icCalls < MaxCalls
    /\ icLast' = [type |-> "keydown", code |-> code,
                  defaultPrevented |-> activates]
    /\ icCalls' = IF activates THEN icCalls + 1 ELSE icCalls
    /\ UNCHANGED <<icProps, icOut, icRenders, playerVars, shellVars>>

\* a pointer click on the card: onClick={onClick}
IconClick ==
  /\ icProps.onClick => icCalls < MaxCalls
  /\ icLast' = [type |-> "click", code |-> "", defaultPrevented |-> FALSE]
  /\ icCalls' = IF icProps.onClick THEN icCalls + 1 ELSE icCalls
  /\ UNCHANGED <<icProps, icOut, icRenders, playerVars, shellVars>>

NextIcon == IconRerender \/ IconSetProps \/ IconKeyDown \/ IconClick

SpecIcon == InitIcon /\ [][NextIcon]_vars

(* ------------------------------ claims --------------------------------- *)

\* a Space or Enter keydown handled on element el
KeyActivation(el) ==
  \E code \in ActivationKeys : focus = el /\ handleKeyDown(el, code)

\* C1: the play control can be activated in every state, and every
\* activation flips the status, whatever it was, and invokes onPlayChange
\* (when supplied) exactly once, during that activation, with the new status.
C1_ToggleFlipsAndNotifies ==
  /\ [](nToggles < MaxToggles => ENABLED ClickPlay)
  /\ [][nToggles' # nToggles =>
          /\ nToggles' = nToggles + 1
          /\ isPlaying' = ~isPlaying
          /\ log' = IF onPlayChange = "function"
                    THEN Append(log, isPlaying') ELSE log]_vars

\* a pointer click has just turned a Playing card Idle and reported FALSE
C1_Witness ==
  /\ lastEvent.type = "click" /\ lastEvent.target = "button"
  /\ ~isPlaying
  /\ log = <<TRUE, FALSE>>

\* C2: after n toggles from Idle the status is Playing iff n is odd, and the
\* callback has been invoked exactly n times with payloads TRUE, FALSE, TRUE, ...
C2_ToggleParity ==
  /\ isPlaying = (nToggles % 2 = 1)
  /\ onPlayChange = "function" =>
       /\ Len(log) = nToggles
       /\ \A i \in 1 .. Len(log) : log[i] = (i % 2 = 1)

\* two toggles from Idle: Idle again, callback payloads Playing then Idle
C2_Witness ==
  /\ nToggles = 2
  /\ ~isPlaying
  /\ onPlayChange = "function"
  /\ log = <<TRUE, FALSE>>
  /\ lastEvent.type = "keydown"

\* C3: whatever the interleaving of activations and re-renders, each
\* activation changes the status exactly once relative to the status the
\* previous activation left.
C3_NoLostTransition ==
  [][nToggles' = nToggles + 1 => Status' = ~Status]_vars

\* the expected result of storing the computed value v
ExpectedProgress(v) ==
  CASE v.t = "inf" -> IF v.v < 0 THEN 0 ELSE 100
    [] v.t = "num" /\ v.v < 0 -> 0
    [] v.t = "num" /\ v.v > 100 -> 100
    [] OTHER -> v.v

\* C4: a progress click whose computed value is v stores 0 for v < 0, 100 for
\* v > 100 and v itself for every v in 0..100.
C4_ProgressClamp ==
  (lastEvent.type = "click" /\ lastEvent.target = "progressbar"
     /\ lastEvent.newProgress.t # "nan")
    => currentProgress = Num(ExpectedProgress(lastEvent.newProgress))

\* a click computing 150 has stored 100
C4_Witness ==
  /\ lastEvent.target = "progressbar"
  /\ lastEvent.newProgress = Num(150)
  /\ currentProgress = Num(100)

\* C5: progressPercent is an integer in 0..100 in every state, from
\* construction onward, for every initial progress the caller supplies.
C5_ProgressInRange ==
  /\ currentProgress.t = "num"
  /\ currentProgress.v \in 0 .. 100

\* C6: a progress click never changes the status and never invokes the
\* callback.
C6_ProgressClickFrame ==
  [][(lastEvent'.type = "click" /\ lastEvent'.target = "progressbar") =>
       /\ isPlaying' = isPlaying
       /\ log' = log
       /\ nToggles' = nToggles]_vars

\* a progress click on a Playing card has moved the progress and nothing else
C6_Witness ==
  /\ lastEvent.type = "click" /\ lastEvent.target = "progressbar"
  /\ isPlaying
  /\ log = <<TRUE>>
  /\ currentProgress = Num(100)

\* C7: in every reachable state a Space or Enter keydown on the play button
\* produces the next state and the callback payload that a pointer click on
\* the play button produces there.
C7_KeyboardPointerEquivalence ==
  [][KeyActivation("button") =>
       /\ ENABLED ClickPlay
       /\ PlayToggleEffect(lastEvent'.threw)]_vars

\* a Space keydown on the button has started playback and reported TRUE
C7_Witness ==
  /\ lastEvent.type = "keydown" /\ lastEvent.target = "button"
  /\ lastEvent.code = "Space"
  /\ isPlaying
  /\ log = <<TRUE>>

\* C8: only Space and Enter keydowns have their default prevented and
\* activate; a keydown of any other key leaves status, progress and the
\* callback log as they were.
C8_OtherKeysIgnored ==
  [][/\ lastEvent'.type = "keydown" =>
          (lastEvent'.defaultPrevented <=> lastEvent'.code \in ActivationKeys)
     /\ (lastEvent'.type = "keydown" /\ lastEvent'.code \notin ActivationKeys) =>
          UNCHANGED <<isPlaying, currentProgress, playQ, progQ, log, nToggles>>
     /\ KeyDown =>
          (nToggles' = nToggles + 1 <=> lastEvent'.code \in ActivationKeys)]_vars

\* the numeric keypad's Enter was pressed on a Playing card and was ignored
C8_Witness ==
  /\ lastEvent.type = "keydown"
  /\ lastEvent.code = "NumpadEnter"
  /\ ~lastEvent.defaultPrevented
  /\ isPlaying
  /\ nToggles = 1

\* C9: in every rendered state aria-pressed, the button label and the
\* live-region text all mirror the status, so they never disagree.
C9_AriaMirrorsStatus ==
  /\ dom.ariaPressed = (IF isPlaying THEN "true" ELSE "false")
  /\ dom.ariaLabel = (IF isPlaying THEN LabelPause ELSE LabelStart)
  /\ dom.liveText = (IF isPlaying THEN LivePlaying ELSE LivePaused)

\* a toggle back to Idle has been rendered
C9_Witness ==
  /\ nToggles = 2
  /\ dom.ariaPressed = "false"
  /\ dom.liveText = LivePaused
  /\ lastEvent.type = "click" /\ lastEvent.target = "button"

\* C10: the progress bar always exposes (aria-valuenow, aria-valuemin,
\* aria-valuemax) = (progressPercent, 0, 100).
C10_RangeValueTriple ==
  /\ currentProgress.t = "num" => dom.ariaValueNow = ToString(currentProgress.v)
  /\ currentProgress.t = "nan" => dom.ariaValueNow = "NaN"
  /\ dom.ariaValueMin = "0"
  /\ dom.ariaValueMax = "100"

\* constructed with 60, started, then set to 30: the triple is (30, 0, 100)
C10_Witness ==
  /\ progress = Num(60)
  /\ isPlaying
  /\ log = <<TRUE>>
  /\ lastEvent.type = "click" /\ lastEvent.target = "progressbar"
  /\ lastEvent.newProgress = Num(30)
  /\ dom.ariaValueNow = "30"

\* C11: a newly constructed playback card is Idle, its progressPercent is the
\* progress the caller supplied (60 when none is supplied), and construction
\* has invoked the callback zero times.
C11_Construction ==
  lastEvent.type = "none" =>
    /\ isPlaying = FALSE
    /\ dom.ariaPressed = "false"
    /\ currentProgress =
         (IF progressProp.t = "undefined" THEN Num(60) ELSE progressProp)
    /\ log = <<>>
    /\ nToggles = 0

\* a card constructed without a progress prop, before any event
C11_Witness ==
  /\ lastEvent.type = "none"
  /\ progressProp.t = "undefined"
  /\ currentProgress = Num(60)
  /\ dom.ariaValueNow = "60"
  /\ log = <<>>

\* the style GlassCard / FrostedGlassPanel resolves for the current props
\* with one prop replaced
StyleWith(field, value) ==
  RenderElement(shKind, [shProps EXCEPT ![field] = value]).style

\* C12: in GlassCard every opacity value outside the four recognised tiers
\* resolves to the background, border, shadow and hover classes of the tier
\* 'standard', and every variant value outside the three recognised variants
\* resolves to the dimension classes of the variant 'default'.
C12_GlassCardFallback ==
  shKind = "GlassCard" =>
    /\ shProps.opacity \notin RecognisedOpacities =>
         LET std == opacityMap.standard IN
         /\ shOut.style.bg = Num(std.bg)
         /\ shOut.style.borderT = Num(std.border)
         /\ shOut.style.borderL = Num(std.border)
         /\ shOut.style.borderB = Num(std.borderB)
         /\ shOut.style.borderR = Num(std.borderR)
         /\ shOut.style.shadow = CardShadow(8, 32, Num(std.shadow))
         /\ shProps.interactive =>
              /\ shOut.style.hover.bg = Num(std.hoverBg)
              /\ shOut.style.hover.shadow = CardShadow(12, 40, Num(std.hoverShadow))
    /\ shProps.variant \notin RecognisedVariants(shKind) =>
         shOut.style.dims = variantClasses.default

\* C13: in FrostedGlassPanel, for every variant and size, an unrecognised
\* opacity resolves to the background, border, blur and shadow that the tier
\* 'standard' resolves to with the same variant and size, and an unrecognised
\* size resolves to the width, padding and corner radius of size 'medium'.
C13_FrostedFallback ==
  shKind = "FrostedGlassPanel" =>
    /\ shProps.opacity \notin RecognisedOpacities =>
         LET std == StyleWith("opacity", "standard") IN
         /\ shOut.style.bg = std.bg
         /\ shOut.style.borderT = std.borderT
         /\ shOut.style.blur = std.blur
         /\ shOut.style.shadow = std.shadow
    /\ shProps.size \notin RecognisedSizes =>
         /\ shOut.style.width = sizeConfig.medium.width
         /\ shOut.style.padding = sizeConfig.medium.padding
         /\ shOut.style.radius = sizeConfig.medium.borderRadius

\* every visual channel of a resolved style has a value
AllChannelsDefined(kind, props, style) ==
  /\ style.bg.t = "num"
  /\ style.blur.t = "num"
  /\ \A b \in {style.borderT, style.borderL, style.borderB, style.borderR} :
       b.t = "num"
  /\ style.shadow.t = "layers"
  /\ props.interactive =>
       /\ style.hover.present
       /\ style.hover.bg.t = "num"
       /\ style.hover.shadow.t = "layers"
  /\ IF kind = "FrostedGlassPanel"
     THEN "undefined" \notin {style.width, style.padding, style.radius}
     ELSE style.dims # <<>>

\* C14: for every tier, variant and size value (recognised, unknown, empty or
\* a name inherited by every object such as 'constructor') and both
\* interactive settings, both shells render without throwing and every
\* visual channel of the result is defined.
C14_ResolutionTotal ==
  /\ shOut.status = "rendered"
  /\ AllChannelsDefined(shKind, shProps, shOut.style)

\* the tiers from the most transparent to the most solid
TierOrder == <<"light", "standard", "dark", "opaque">>

\* C15: for both shells and every fixed variant and size, along the tiers
\* light, standard, dark, opaque the resolved background alpha and the
\* resolved blur radius never decrease: what a shell rendered with a tier
\* shows is at least what every lower tier resolves to with the same variant,
\* size and interactive setting.
C15_Monotone ==
  \A j \in DOMAIN TierOrder :
    (shProps.opacity = TierOrder[j] /\ shOut.status = "rendered") =>
      /\ shOut.style.bg.t = "num"
      /\ shOut.style.blur.t = "num"
      /\ \A i \in 1..(j - 1) :
           LET lower == StyleWith("opacity", TierOrder[i]) IN
           /\ lower.bg.t = "num" /\ lower.bg.v <= shOut.style.bg.v
           /\ lower.blur.t = "num" /\ lower.blur.v <= shOut.style.blur.v

\* a content panel re-rendered from tier 'standard' to tier 'dark'
C15_Witness ==
  /\ shKind = "FrostedGlassPanel"
  /\ shProps.variant = "content"
  /\ shProps.opacity = "dark"
  /\ shOut.style.bg = Num(18)
  /\ shOut.style.blur = Num(8)
  /\ StyleWith("opacity", "standard").bg = Num(12)
  /\ StyleWith("opacity", "standard").blur = Num(6)

C18_ThrowingCallback ==
  /\ [](onPlayChange = "undefined" => ~lastEvent.threw)
  /\ [][(nToggles' = nToggles + 1 /\ lastEvent'.threw) =>
          /\ isPlaying' = ~isPlaying
          /\ dom'.ariaPressed = (IF isPlaying THEN "false" ELSE "true")
          /\ dom'.liveText = (IF isPlaying THEN LivePaused ELSE LivePlaying)
          /\ dom'.ariaLabel = (IF isPlaying THEN LabelStart ELSE LabelPause)
          /\ currentProgress' = currentProgress
          /\ dom'.ariaValueNow = dom.ariaValueNow
          /\ log' = Append(log, isPlaying')]_vars

\* the callback threw on the first toggle and the card is Playing
C18_Witness ==
  /\ lastEvent.threw
  /\ nToggles = 1
  /\ isPlaying
  /\ dom.ariaPressed = "true"
  /\ log = <<TRUE>>

\* the hover presentation of the current configuration: lifted, with the
\* stronger shadow
Hovering == [lifted |-> TRUE, shadow |-> shOut.style.hover.shadow]

\* C19: an interactive shell shows the hover presentation while the pointer
\* or the focus is inside it, and once both are outside, after any sequence
\* of enter/leave events and configuration changes, the displayed transform
\* and shadow are the resting values of the current configuration.
C19_HoverFollowsPointerAndFocus ==
  shOut.status = "rendered" =>
    /\ (shProps.interactive /\ (pointerInside \/ focusInside)) =>
         Displayed = Hovering
    /\ (~pointerInside /\ ~focusInside) => Displayed = Resting

\* C20: in every reachable state whose current interactive setting is false
\* the displayed transform and shadow are the resting values and no hover
\* or pointer-cursor styling is present.
C20_NoHoverWhenNotInteractive ==
  (shOut.status = "rendered" /\ ~shProps.interactive) =>
    /\ Displayed = Resting
    /\ ~shOut.style.hover.present
    /\ shOut.style.cursor = ""

\* C22 as stated: in every shell, for fixed variant and size, light <
\* standard < dark < opaque holds strictly for the resolved background alpha
\* and strictly for the resolved blur radius.
C22_StrictOnBothAxes ==
  \A j \in DOMAIN TierOrder :
    (shProps.opacity = TierOrder[j] /\ shOut.status = "rendered") =>
      \A i \in 1..(j - 1) :
        LET lower == StyleWith("opacity", TierOrder[i]) IN
        /\ lower.bg.t = "num" /\ lower.bg.v < shOut.style.bg.v
        /\ lower.blur.t = "num" /\ lower.blur.v < shOut.style.blur.v

\* C22, amended: the background alpha is strictly ordered along the tiers in
\* every shell; the blur radius is strictly ordered in FrostedGlassPanel and
\* is 16px in every tier of GlassCard (and IconCard).
C22_StrictAlpha ==
  \A j \in DOMAIN TierOrder :
    (shProps.opacity = TierOrder[j] /\ shOut.status = "rendered") =>
      /\ shOut.style.bg.t = "num"
      /\ shOut.style.blur.t = "num"
      /\ shKind # "FrostedGlassPanel" => shOut.style.blur = Num(16)
      /\ \A i \in 1..(j - 1) :
           LET lower == StyleWith("opacity", TierOrder[i]) IN
           /\ lower.bg.t = "num" /\ lower.bg.v < shOut.style.bg.v
           /\ lower.blur.t = "num"
           /\ IF shKind = "FrostedGlassPanel"
              THEN lower.blur.v < shOut.style.blur.v
              ELSE lower.blur.v = shOut.style.blur.v

\* a GlassCard of tier 'dark': more opaque than 'standard', equally blurred
C22_Witness ==
  /\ shKind = "GlassCard"
  /\ shProps.opacity = "dark"
  /\ shOut.status = "rendered"
  /\ shOut.style.bg = Num(85)
  /\ shOut.style.blur = Num(16)
  /\ StyleWith("opacity", "standard").bg = Num(65)
  /\ StyleWith("opacity", "standard").blur = Num(16)

\* C23: for every tier, and for the result of the fallback, of both shells
\* the resolved border alpha of the top and left edges is at least that of
\* the bottom and right edges.  A name that resolves to a table entry always
\* has the four alphas.
C23_LightFromTopLeft ==
  shOut.status = "rendered" =>
    LET st == shOut.style IN
    /\ shProps.opacity \notin InheritedNames =>
         \A b \in {st.borderT, st.borderL, st.borderB, st.borderR} : b.t = "num"
    /\ (st.borderT.t = "num" /\ st.borderL.t = "num"
          /\ st.borderB.t = "num" /\ st.borderR.t = "num") =>
         /\ st.borderT.v >= st.borderB.v
         /\ st.borderT.v >= st.borderR.v
         /\ st.borderL.v >= st.borderB.v
         /\ st.borderL.v >= st.borderR.v

\* a GlassCard given an unknown tier: the fallback result
C23_Witness ==
  /\ shKind = "GlassCard"
  /\ shProps.opacity = "bogus"
  /\ shOut.status = "rendered"
  /\ shOut.style.borderT = Num(80)
  /\ shOut.style.borderL = Num(80)
  /\ shOut.style.borderB = Num(40)
  /\ shOut.style.borderR = Num(40)

\* the number of outer / inset layers of a shadow
OuterLayers(shadow) == Cardinality({i \in DOMAIN shadow.v : ~shadow.v[i].inset})
InsetLayers(shadow) == Cardinality({i \in DOMAIN shadow.v : shadow.v[i].inset})

\* C24 as stated: in FrostedGlassPanel the lowest tier resolves to exactly 1
\* outer shadow and no inset layer, the highest tier to 1 outer shadow plus
\* 2 inset layers, and the layer count never decreases as the tier rises.
C24_LayersGrowWithTier ==
  (shKind = "FrostedGlassPanel" /\ shOut.style.shadow.t = "layers") =>
    /\ shProps.opacity = "light" =>
         /\ OuterLayers(shOut.style.shadow) = 1
         /\ InsetLayers(shOut.style.shadow) = 0
    /\ shProps.opacity = "opaque" =>
         /\ OuterLayers(shOut.style.shadow) = 1
         /\ InsetLayers(shOut.style.shadow) = 2
    /\ \A j \in DOMAIN TierOrder :
         shProps.opacity = TierOrder[j] =>
           \A i \in 1..(j - 1) :
             Len(StyleWith("opacity", TierOrder[i]).shadow.v)
               <= Len(shOut.style.shadow.v)

\* C24, amended: in FrostedGlassPanel every tier, the lowest included,
\* resolves to exactly 1 outer shadow plus 4 inset layers; the layer count
\* is the same in every tier, so it never decreases as the tier rises.
C24_FiveLayersInEveryTier ==
  (shKind = "FrostedGlassPanel" /\ shOut.style.shadow.t = "layers") =>
    /\ OuterLayers(shOut.style.shadow) = 1
    /\ InsetLayers(shOut.style.shadow) = 4
    /\ ~shOut.style.shadow.v[1].inset
    /\ \A o \in RecognisedOpacities :
         Len(StyleWith("opacity", o).shadow.v) = Len(shOut.style.shadow.v)

\* a content panel of the lowest tier
C24_Witness ==
  /\ shKind = "FrostedGlassPanel"
  /\ shProps.opacity = "light"
  /\ shProps.variant = "content"
  /\ shOut.style.shadow.t = "layers"
  /\ Len(shOut.style.shadow.v) = 5
  /\ InsetLayers(shOut.style.shadow) = 4

\* the translucency channels of a style
Translucency(st) ==
  <<st.bg, st.blur, st.borderT, st.borderL, st.borderB, st.borderR, st.shadow>>

\* the layout dimensions of a style
Dimensions(st) == <<st.dims, st.width, st.padding, st.radius>>

\* a re-render from one rendered style to another
RenderedStep == shOut.status = "rendered" /\ shOut'.status = "rendered"

\* C25: in FrostedGlassPanel the corner radius and the width depend on the
\* size alone: a re-render that keeps the size, whatever it does to the tier
\* and the variant, changes neither, and a re-render that keeps the tier and
\* the variant, whatever it does to the size, changes none of background
\* alpha, blur, border and shadow.
C25_SizeAloneSetsRadius ==
  [][(shKind = "FrostedGlassPanel" /\ RenderedStep) =>
       /\ shProps'.size = shProps.size =>
            /\ shOut'.style.radius = shOut.style.radius
            /\ shOut'.style.width = shOut.style.width
       /\ (shProps'.opacity = shProps.opacity
             /\ shProps'.variant = shProps.variant) =>
            Translucency(shOut'.style) = Translucency(shOut.style)]_vars

\* a large panel: the radius of size 'large' under the tier 'opaque', which
\* differs from what the size 'small' gives under the same tier
C25_Witness ==
  /\ shKind = "FrostedGlassPanel"
  /\ shProps.size = "large"
  /\ shProps.opacity = "opaque"
  /\ shOut.style.radius = "30px"
  /\ shOut.style.width = "600px"
  /\ shOut.style.bg = Num(45)
  /\ StyleWith("size", "small").radius = "20px"
  /\ StyleWith("size", "small").bg = Num(45)
  /\ StyleWith("opacity", "light").radius = "30px"

C21_IconActivation ==
  /\ [](icOut.tabIndex = (IF icProps.onClick THEN 0 ELSE 0 - 1))
  /\ [][icRenders' = icRenders =>
          LET e == icLast'
              activation ==
                \/ e.type = "click"
                \/ e.type = "keydown" /\ e.code \in {"Space", "Enter"}
          IN
          /\ icCalls' = icCalls + (IF icProps.onClick /\ activation THEN 1 ELSE 0)
          /\ e.defaultPrevented = (icProps.onClick /\ activation
                                     /\ e.type = "keydown")
          /\ icOut' = icOut
          /\ icProps' = icProps]_vars

\* an icon card with a callback, activated by a click and then by Enter
C21_Witness ==
  /\ icProps.onClick
  /\ icOut.tabIndex = 0
  /\ icCalls = 2
  /\ icLast.type = "keydown"
  /\ icLast.code = "Enter"
  /\ icLast.defaultPrevented

\* C27: across re-renders with unchanged props the aria-label and the
\* aria-describedby id the card emits are those of the previous render, and
\* so those of the first.
C27_IdentityStable ==
  [][(icProps' = icProps /\ icRenders' = icRenders + 1) =>
       /\ icOut'.ariaLabel = icOut.ariaLabel
       /\ icOut'.ariaDescribedBy = icOut.ariaDescribedBy]_vars

C28_StateOwnedByInstance ==
  [][/\ lastEvent'.type = "rerender" =>
          /\ isPlaying' = isPlaying
          /\ currentProgress' = currentProgress
          /\ dom'.ariaValueNow = dom.ariaValueNow
          /\ dom'.ariaPressed = dom.ariaPressed
     /\ lastEvent'.type = "mount" =>
          /\ isPlaying' = FALSE
          /\ currentProgress' = ProgressParam(progressProp')
          /\ dom'.ariaPressed = "false"
          /\ dom'.ariaValueNow = NumAttr(ProgressParam(progressProp'))
     /\ isPlaying' # isPlaying =>
          \/ lastEvent'.type = "click" /\ lastEvent'.target = "button"
          \/ lastEvent'.type = "mount"
     /\ currentProgress' # currentProgress =>
          \/ lastEvent'.type = "click" /\ lastEvent'.target = "progressbar"
          \/ lastEvent'.type = "mount"]_vars

\* a card constructed with the default progress, set to 50 by a click,
\* playing, then re-rendered with progress={30}
C28_Witness ==
  /\ lastEvent.type = "rerender"
  /\ progressProp = Num(30)
  /\ progress = Num(30)
  /\ currentProgress = Num(50)
  /\ dom.ariaValueNow = "50"
  /\ isPlaying

\* C29: on the play button and on the progress bar alike a Space / Enter
\* keydown makes the kind of transition a pointer click on the same element
\* makes: on the button a toggle with its callback, on the progress bar a
\* change of progressPercent alone, without a toggle and without a callback.
C29_SameActivationPath ==
  [][(lastEvent'.type = "keydown" /\ lastEvent'.code \in ActivationKeys
        /\ lastEvent'.defaultPrevented /\ nToggles' = nToggles + 1) =>
       IF lastEvent'.target = "button"
       THEN /\ isPlaying' = ~isPlaying
            /\ currentProgress' = currentProgress
       ELSE /\ isPlaying' = isPlaying
            /\ log' = log]_vars

====
